---- MODULE Spec2Model ----
(***************************************************************************)
(* A model of the ksway IPC client (src/src/client.rs, src/src/lib.rs):    *)
(* one Client connected over a Unix socket to the compositor service.      *)
(* The client side is translated from Client::ipc, Client::poll,           *)
(* Client::subscribe, Client::read_response and Client::send_command.  The *)
(* service and the holder of the subscription Receiver are the environment.*)
(***************************************************************************)
EXTENDS Integers, Sequences, FiniteSets, TLC

\* ---------------------------------------------------------------- bounds
MaxCalls == 3        \* calls of ipc / poll / subscribe made by the caller
MaxFrames == 3       \* frames the service writes to the socket
MaxPayload == 2      \* bytes in the payload of a frame, in the byte form of frames
MaxEvents == 2       \* events in the list of a Subscribe command
MaxWith == 3         \* calls of with_criteria made on one command

\* ------------------------------------------------------- 32-bit type codes
\* A u32 is kept as its bit 31 (hi) and its low 31 bits (lo).
U32(h, l) == [hi |-> h, lo |-> l]

RECURSIVE AndLo(_, _)
AndLo(x, y) ==
  IF x = 0 \/ y = 0 THEN 0
  ELSE (x % 2) * (y % 2) + 2 * AndLo(x \div 2, y \div 2)

\* a & b on u32
BitAnd(a, b) == U32(a.hi * b.hi, AndLo(a.lo, b.lo))

\* a > 0 on u32
GtZero(a) == a.hi = 1 \/ a.lo > 0

\* enum IpcEvent, #[repr(u32)]
IpcEvent ==
  [ Workspace       |-> U32(1, 0),
    Mode            |-> U32(1, 2),
    Window          |-> U32(1, 3),
    BarconfigUpdate |-> U32(1, 4),
    Binding         |-> U32(1, 5),
    Shutdown        |-> U32(1, 6),
    Tick            |-> U32(1, 7),
    BarStatusUpdate |-> U32(1, 20) ]

\* enum IpcCommandCode
IpcCommandCode ==
  [ RunCommand      |-> 0,
    GetWorkspaces   |-> 1,
    Subscribe       |-> 2,
    GetOutputs      |-> 3,
    GetTree         |-> 4,
    GetMarks        |-> 5,
    GetBarConfig    |-> 6,
    GetVersion      |-> 7,
    GetBindingModes |-> 8,
    GetConfig       |-> 9,
    SendTick        |-> 10 ]

\* the variants of enum IpcCommand
IpcCommand ==
  { "Run", "GetBarConfig", "GetBindingModes", "GetConfig", "GetMarks", "GetOutputs",
    "GetTree", "GetVersion", "GetWorkspaces", "SendTick", "Subscribe" }

\* a mapping that gives GetMarks the op-code of GetTree
code_collide(command) ==
  U32(0, CASE command = "GetBarConfig"    -> IpcCommandCode.GetBarConfig
           [] command = "GetBindingModes" -> IpcCommandCode.GetBindingModes
           [] command = "GetConfig"       -> IpcCommandCode.GetConfig
           [] command = "GetMarks"        -> IpcCommandCode.GetTree
           [] command = "GetOutputs"      -> IpcCommandCode.GetOutputs
           [] command = "GetTree"         -> IpcCommandCode.GetTree
           [] command = "GetVersion"      -> IpcCommandCode.GetVersion
           [] command = "GetWorkspaces"   -> IpcCommandCode.GetWorkspaces
           [] command = "Run"             -> IpcCommandCode.RunCommand
           [] command = "SendTick"        -> IpcCommandCode.SendTick
           [] command = "Subscribe"       -> IpcCommandCode.Subscribe)

\* IpcCommand::code, followed by the `as u32` of its callers
code(command) ==
  U32(0, CASE command = "GetBarConfig"    -> IpcCommandCode.GetBarConfig
           [] command = "GetBindingModes" -> IpcCommandCode.GetBindingModes
           [] command = "GetConfig"       -> IpcCommandCode.GetConfig
           [] command = "GetMarks"        -> IpcCommandCode.GetMarks
           [] command = "GetOutputs"      -> IpcCommandCode.GetOutputs
           [] command = "GetTree"         -> IpcCommandCode.GetTree
           [] command = "GetVersion"      -> IpcCommandCode.GetVersion
           [] command = "GetWorkspaces"   -> IpcCommandCode.GetWorkspaces
           [] command = "Run"             -> IpcCommandCode.RunCommand
           [] command = "SendTick"        -> IpcCommandCode.SendTick
           [] command = "Subscribe"       -> IpcCommandCode.Subscribe)

\* IpcEvent::from_u32 (num_derive::FromPrimitive): the variant whose
\* discriminant is t, or "None" when no variant has it.
from_u32(t) ==
  IF \E n \in DOMAIN IpcEvent : IpcEvent[n] = t
  THEN CHOOSE n \in DOMAIN IpcEvent : IpcEvent[n] = t
  ELSE "None"

\* a classification test that forgets the mask
is_event_any(payload_type) == GtZero(payload_type)

\* the classification test of ipc and poll:
\*   payload_type & IpcEvent::Workspace as u32 > 0
is_event(payload_type) == GtZero(BitAnd(payload_type, IpcEvent.Workspace))

\* the OS error of a read that finds no data before the read timeout set by
\* connect_to_path: EAGAIN/EWOULDBLOCK
EAGAIN == 11

\* io::Error::raw_os_error() is an Option<i32>, kept as a set of at most one
\* number.  A read that times out on the SO_RCVTIMEO socket fails with
\* Some(EAGAIN); a read at end of stream fails with UnexpectedEof, which
\* carries no OS error code.
NoErrno == {}

\* ------------------------------------------------------------------ state
VARIABLES
  debug_assertions,    \* build profile: TRUE when debug_assert! is compiled in
  subscription_events, \* Client.subscription_events: "None" or "Some" (the Sender)
  rx,                  \* the Receiver: "none" (no channel yet), "local" (held by the
                       \* running subscribe), "caller" (returned), "dropped"
  chan,                \* every item sent on the channel so far, in send order
  received,            \* how many of them the Receiver has taken
  socketIn,            \* frames the service wrote that the client has not read
  socketOut,           \* command frames the client wrote that the service has not read
  peerClosed,          \* the service closed its end of the socket
  pc,                  \* "idle", "ipc" (inside the loop of Client::ipc), "panicked"
  call,                \* the ipc/subscribe call in progress, or the last one
  last,                \* what the client's last step did
  ncalls,              \* calls started by the caller
  nframes,             \* frames written by the service
  nchannels,           \* producer/consumer pairs created by chan::unbounded()
  outstanding,         \* command frames written whose reply has not been read
  pipelined,           \* a command frame was written while outstanding > 0
  evReadSub,           \* the IpcEvent-coded frames read while a producer is installed
  replied,             \* payloads that ipc returned as replies
  endian,              \* build target: "little" or "big", the native byte order
  encoded,             \* the IpcCommand that write was called on
  buffer,              \* the bytes IpcCommand::write gave to its writer
  stream,              \* the bytes the socket holds for read_response
  streamEnd,           \* what a read finds after them: "open", "eof", "reset"
  origin,              \* how the bytes of `stream` were made
  response,            \* the result of the read_response on `stream`
  phase,               \* "start", "written", "arrived", "read"
  cmds,                \* the Command made by command::raw / exec, then the result
                       \* of each with_criteria call made on it, in call order
  supplied,            \* the criteria list given to each of those calls
  criterion,           \* the Criteria that to_string was called on, if any
  shown,               \* the String that to_string returned
  made                 \* "start", "built", "shown"

\* the state of the byte form of frames
wireVars == << endian, encoded, buffer, stream, streamEnd, origin, response, phase >>

\* the state of the client, its channel and its socket
clientVars == << subscription_events, rx, chan, received, socketIn, socketOut,
                 peerClosed, pc, call, last, ncalls, nframes, nchannels,
                 outstanding, pipelined, evReadSub, replied >>

\* the state of the construction of a command
commandVars == << cmds, supplied, criterion, shown, made >>

vars == << debug_assertions, clientVars, wireVars, commandVars >>

NoFrame == [magic |-> TRUE, type |-> U32(0, 0), payload |-> 0]

NoCall == [op |-> "none", command |-> "none", code |-> U32(0, 0),
           subAtCall |-> "None", chanAtStart |-> << >>, evRead |-> << >>]

NoStep == [op |-> "none", out |-> "none", first |-> FALSE, read |-> FALSE,
           frame |-> NoFrame, wrote |-> FALSE, errno |-> NoErrno, sub |-> "None",
           rxs |-> "none"]

\* the Receiver exists, so tx.send succeeds
RxAlive == rx \in {"local", "caller"}

\* the items waiting on the channel
Queue == SubSeq(chan, received + 1, Len(chan))

\* the (IpcEvent, Vec<u8>) pair that ipc and poll send for a frame
Item(frame) == [event |-> from_u32(frame.type), payload |-> frame.payload]

\* a frame whose type_code is one of the codes of enum IpcEvent
IsTableEvent(frame) == \E n \in DOMAIN IpcEvent : IpcEvent[n] = frame.type

\* b"i3-ipc"
Magic == << 105, 51, 45, 105, 112, 99 >>

\* an IpcCommand: its variant and the variant's field (a String is its UTF-8
\* bytes)
Command(kind, text, bytes, events) ==
  [kind |-> kind, text |-> text, bytes |-> bytes, events |-> events]

NoCommand == Command("none", << >>, << >>, << >>)

NoBytesFrame == [magic |-> TRUE, length |-> U32(0, 0), type |-> U32(0, 0),
                 payload |-> << >>]

\* where the bytes of `stream` came from
NoOrigin == [kind |-> "none", magic |-> Magic, type |-> U32(0, 0),
             payload |-> << >>, cut |-> 0, tail |-> << >>]

NoResponse == [res |-> "none", errno |-> NoErrno, frame |-> NoBytesFrame,
               caller |-> "none", out |-> "none", event |-> FALSE]

WireInit ==
  /\ encoded = NoCommand
  /\ buffer = << >>
  /\ stream = << >>
  /\ streamEnd = "open"
  /\ origin = NoOrigin
  /\ response = NoResponse
  /\ phase = "start"

\* the value of `criterion` when to_string was called on no Criteria
NoCriteria == [kind |-> "none", arg |-> "none"]

CommandInit ==
  /\ cmds = << >>
  /\ supplied = << >>
  /\ criterion = NoCriteria
  /\ shown = ""
  /\ made = "start"

ClientInit ==
  /\ subscription_events = "None"
  /\ rx = "none"
  /\ chan = << >>
  /\ received = 0
  /\ socketIn = << >>
  /\ socketOut = << >>
  /\ peerClosed = FALSE
  /\ pc = "idle"
  /\ call = NoCall
  /\ last = NoStep
  /\ ncalls = 0
  /\ nframes = 0
  /\ nchannels = 0
  /\ outstanding = 0
  /\ pipelined = FALSE
  /\ evReadSub = << >>
  /\ replied = {}

\* a freshly connected client in either build profile; the byte form of frames
\* plays no part in its steps
Init ==
  /\ debug_assertions \in BOOLEAN
  /\ endian = "little"
  /\ ClientInit
  /\ WireInit
  /\ CommandInit

\* ------------------------------------------------------------ the client
\* the record kept in `last` for a step of the client: the call it belongs to,
\* how the step ended ("continue" when the call goes on), whether it is the
\* call's first step, the frame it read, whether it wrote a command frame, the
\* OS error of a failed read, and the producer and Receiver as the step found them
Step(op, out, first, read, frame, wrote, errno) ==
  [op |-> op, out |-> out, first |-> first, read |-> read, frame |-> frame,
   wrote |-> wrote, errno |-> errno, sub |-> subscription_events, rxs |-> rx]

\* a read that takes every frame that has arrived off the stream
read_response_drain ==
  IF socketIn = << >>
  THEN [res |-> "Err", errno |-> IF peerClosed THEN NoErrno ELSE {EAGAIN},
        frame |-> NoFrame, rest |-> socketIn]
  ELSE IF debug_assertions /\ ~Head(socketIn).magic
       THEN [res |-> "panic", errno |-> NoErrno, frame |-> NoFrame,
             rest |-> << >>]
       ELSE [res |-> "Ok", errno |-> NoErrno, frame |-> Head(socketIn),
             rest |-> << >>]

\* Client::read_response on the socket as it is now: the frame at the head of
\* the stream; with no data, the read times out unless the peer has closed.
\* debug_assert_eq!(b"i3-ipc", &buffer) panics only in a debug build.
read_response ==
  IF socketIn = << >>
  THEN [res |-> "Err", errno |-> IF peerClosed THEN NoErrno ELSE {EAGAIN},
        frame |-> NoFrame, rest |-> socketIn]
  ELSE IF debug_assertions /\ ~Head(socketIn).magic
       THEN [res |-> "panic", errno |-> NoErrno, frame |-> NoFrame,
             rest |-> Tail(socketIn)]
       ELSE [res |-> "Ok", errno |-> NoErrno, frame |-> Head(socketIn),
             rest |-> Tail(socketIn)]

\* a send that puts the item at the front of the queue
send_front(queue, item) == << item >> \o queue

\* crossbeam_channel::Sender::send on an unbounded channel
send(queue, item) == Append(queue, item)

\* a dispatch that forwards nothing: every event frame is skipped
dispatch_skip(frame) == "discard"

\* a dispatch that fails when no producer is installed
dispatch_fatal(frame) ==
  IF subscription_events = "Some"
  THEN IF from_u32(frame.type) = "None" THEN "panic"
       ELSE IF RxAlive THEN "send" ELSE "SubscriptionError"
  ELSE "panic"

\* a dispatch that ignores the result of tx.send
dispatch_unchecked(frame) ==
  IF subscription_events = "Some"
  THEN IF from_u32(frame.type) = "None" THEN "panic" ELSE "send"
  ELSE "discard"

\* the body of `if payload_type & IpcEvent::Workspace as u32 > 0 { .. }` in ipc
\* and poll: what happens to an event frame.
\*   if let Some(ref tx) = self.subscription_events {
\*       tx.send((IpcEvent::from_u32(payload_type).unwrap(), payload))
\*           .map_err(|_| Error::SubscriptionError)?; }
dispatch(frame) ==
  IF subscription_events = "Some"
  THEN IF from_u32(frame.type) = "None" THEN "panic"
       ELSE IF RxAlive THEN "send" ELSE "SubscriptionError"
  ELSE "discard"

\* an ipc that treats the no-data timeout as poll does
ipc_outcome_absorb(r) ==
  CASE r.res = "Err" -> IF r.errno = {11} THEN "Ok" ELSE "Io"
    [] r.res = "panic" -> "panic"
    [] OTHER ->
         IF is_event(r.frame.type)
         THEN CASE dispatch(r.frame) = "send" -> "continue"
                [] dispatch(r.frame) = "discard" -> "continue"
                [] OTHER -> dispatch(r.frame)
         ELSE IF debug_assertions /\ call.code # r.frame.type
              THEN "panic"
              ELSE "Ok"

\* a loop that reads on after the reply instead of returning it
ipc_outcome_spin(r) ==
  CASE r.res = "Err" -> "Io"
    [] r.res = "panic" -> "panic"
    [] OTHER ->
         IF is_event(r.frame.type)
         THEN CASE dispatch(r.frame) = "send" -> "continue"
                [] dispatch(r.frame) = "discard" -> "continue"
                [] OTHER -> dispatch(r.frame)
         ELSE IF debug_assertions /\ call.code # r.frame.type
              THEN "panic"
              ELSE "continue"

\* how one iteration of the loop of Client::ipc ends, given what was read
ipc_outcome(r) ==
  CASE r.res = "Err" -> "Io"
    [] r.res = "panic" -> "panic"
    [] OTHER ->
         IF is_event(r.frame.type)
         THEN CASE dispatch(r.frame) = "send" -> "continue"
                [] dispatch(r.frame) = "discard" -> "continue"
                [] OTHER -> dispatch(r.frame)
         ELSE IF debug_assertions /\ call.code # r.frame.type
              THEN "panic"            \* debug_assert_eq!(code, payload_type)
              ELSE "Ok"               \* return Ok(payload)

\* a poll that returns Ok for a frame that is not an event
poll_outcome_swallow(r) ==
  CASE r.res = "Err" -> IF r.errno = {11} THEN "Ok" ELSE "Io"
    [] r.res = "panic" -> "panic"
    [] OTHER ->
         IF is_event(r.frame.type)
         THEN CASE dispatch(r.frame) = "send" -> "Ok"
                [] dispatch(r.frame) = "discard" -> "Ok"
                [] OTHER -> dispatch(r.frame)
         ELSE "Ok"

\* a poll that absorbs every read failure that carries an OS error
poll_outcome_lenient(r) ==
  CASE r.res = "Err" -> IF r.errno # NoErrno THEN "Ok" ELSE "Io"
    [] r.res = "panic" -> "panic"
    [] OTHER ->
         IF is_event(r.frame.type)
         THEN CASE dispatch(r.frame) = "send" -> "Ok"
                [] dispatch(r.frame) = "discard" -> "Ok"
                [] OTHER -> dispatch(r.frame)
         ELSE "panic"

\* a poll that does not absorb the timeout
poll_outcome_strict(r) ==
  CASE r.res = "Err" -> "Io"
    [] r.res = "panic" -> "panic"
    [] OTHER ->
         IF is_event(r.frame.type)
         THEN CASE dispatch(r.frame) = "send" -> "Ok"
                [] dispatch(r.frame) = "discard" -> "Ok"
                [] OTHER -> dispatch(r.frame)
         ELSE "panic"

\* how Client::poll ends, given what was read
poll_outcome(r) ==
  CASE r.res = "Err" -> IF r.errno = {11} THEN "Ok" ELSE "Io"
    [] r.res = "panic" -> "panic"
    [] OTHER ->
         IF is_event(r.frame.type)
         THEN CASE dispatch(r.frame) = "send" -> "Ok"
                [] dispatch(r.frame) = "discard" -> "Ok"
                [] OTHER -> dispatch(r.frame)
         ELSE "panic"                 \* unreachable!()

\* the frame IpcCommand::write puts on the socket for a command
write(command) == [magic |-> TRUE, type |-> code(command), command |-> command]

\* bookkeeping of a client read: the reply it takes off the wire, and the
\* IpcEvent-coded frame it read under an installed producer
ReadLog(r) ==
  /\ outstanding' = IF r.res = "Ok" /\ r.frame.type.hi = 0 /\ outstanding > 0
                    THEN outstanding - 1 ELSE outstanding
  /\ evReadSub' = IF r.res = "Ok" /\ IsTableEvent(r.frame) /\ subscription_events = "Some"
                  THEN Append(evReadSub, Item(r.frame)) ELSE evReadSub

\* a send_command that writes the command frame twice
ipc_begin_twice(op, command) ==
  /\ call' = [op |-> op, command |-> command, code |-> code(command),
              subAtCall |-> subscription_events', chanAtStart |-> chan',
              evRead |-> << >>]
  /\ IF peerClosed
     THEN /\ pc' = "idle"
          /\ last' = Step(op, "Io", TRUE, FALSE, NoFrame, FALSE, NoErrno)
          /\ UNCHANGED << socketOut, pipelined, outstanding >>
     ELSE /\ pc' = "ipc"
          /\ socketOut' = Append(Append(socketOut, write(command)), write(command))
          /\ last' = Step(op, "continue", TRUE, FALSE, NoFrame, TRUE, NoErrno)
          /\ pipelined' = (pipelined \/ outstanding > 0)
          /\ outstanding' = outstanding + 1

\* Client::send_command followed by entering the loop of Client::ipc; op is
\* "ipc" for a call of ipc and "subscribe" for the ipc inside subscribe.  The
\* write fails when the peer has closed the socket.
ipc_begin(op, command) ==
  /\ call' = [op |-> op, command |-> command, code |-> code(command),
              subAtCall |-> subscription_events', chanAtStart |-> chan',
              evRead |-> << >>]
  /\ IF peerClosed
     THEN /\ pc' = "idle"
          /\ last' = Step(op, "Io", TRUE, FALSE, NoFrame, FALSE, NoErrno)
          /\ UNCHANGED << socketOut, pipelined, outstanding >>
     ELSE /\ pc' = "ipc"
          /\ socketOut' = Append(socketOut, write(command))
          /\ last' = Step(op, "continue", TRUE, FALSE, NoFrame, TRUE, NoErrno)
          /\ pipelined' = (pipelined \/ outstanding > 0)
          /\ outstanding' = outstanding + 1

\* Client::ipc up to its first read: code(), send_command
ipc(command) ==
  /\ pc = "idle"
  /\ ncalls < MaxCalls
  /\ ncalls' = ncalls + 1
  /\ UNCHANGED << commandVars, wireVars, debug_assertions, subscription_events, rx, chan, received,
                  socketIn, peerClosed, nframes, nchannels, evReadSub, replied >>
  /\ ipc_begin("ipc", command)

\* one iteration of the loop of Client::ipc
ipc_loop ==
  /\ pc = "ipc"
  /\ LET r == read_response
         out == ipc_outcome(r)
         sent == r.res = "Ok" /\ is_event(r.frame.type) /\ dispatch(r.frame) = "send"
     IN
     /\ socketIn' = r.rest
     /\ chan' = IF sent THEN send(chan, Item(r.frame)) ELSE chan
     /\ pc' = CASE out = "continue" -> "ipc"
                [] out = "panic" -> "panicked"
                [] OTHER -> "idle"
     /\ rx' = IF call.op = "subscribe" /\ out # "continue"
              THEN (IF out = "Ok" THEN "caller" ELSE "dropped")
              ELSE rx
     /\ call' = IF r.res = "Ok" /\ IsTableEvent(r.frame)
                THEN [call EXCEPT !.evRead = Append(@, Item(r.frame))]
                ELSE call
     /\ replied' = IF out = "Ok" THEN replied \cup {r.frame.payload} ELSE replied
     /\ last' = Step(call.op, out, FALSE, r.res = "Ok", r.frame, FALSE, r.errno)
     /\ ReadLog(r)
  /\ UNCHANGED << commandVars, wireVars, debug_assertions, subscription_events, received, socketOut,
                  peerClosed, ncalls, nframes, nchannels, pipelined >>

\* Client::poll
poll ==
  /\ pc = "idle"
  /\ ncalls < MaxCalls
  /\ ncalls' = ncalls + 1
  /\ LET r == read_response
         out == poll_outcome(r)
         sent == r.res = "Ok" /\ is_event(r.frame.type) /\ dispatch(r.frame) = "send"
     IN
     /\ socketIn' = r.rest
     /\ chan' = IF sent THEN send(chan, Item(r.frame)) ELSE chan
     /\ pc' = IF out = "panic" THEN "panicked" ELSE "idle"
     /\ last' = Step("poll", out, TRUE, r.res = "Ok", r.frame, FALSE, r.errno)
     /\ ReadLog(r)
  /\ UNCHANGED << commandVars, wireVars, debug_assertions, subscription_events, rx, received, socketOut,
                  peerClosed, call, nframes, nchannels, pipelined, replied >>

\* a check that lets subscribe go on once the Receiver has been dropped
already_subscribed_dropped == subscription_events = "Some" /\ rx # "dropped"

\* a check that never finds a producer
already_subscribed_never == FALSE

\* `if self.subscription_events.is_some()` of Client::subscribe
already_subscribed == subscription_events = "Some"

\* an early return placed after the new channel was created and installed:
\* the first pair is replaced and the new Receiver is dropped by the return
subscribe_refused_late ==
  /\ last' = Step("subscribe", "AlreadySubscribed", TRUE, FALSE, NoFrame, FALSE, NoErrno)
  /\ nchannels' = nchannels + 1
  /\ chan' = << >>
  /\ received' = 0
  /\ rx' = "dropped"
  /\ UNCHANGED << commandVars, wireVars, debug_assertions, subscription_events, socketIn, socketOut,
                  peerClosed, pc, call, nframes, outstanding, pipelined,
                  evReadSub, replied >>

\* the early return of Client::subscribe: return Err(Error::AlreadySubscribed)
subscribe_refused ==
  /\ last' = Step("subscribe", "AlreadySubscribed", TRUE, FALSE, NoFrame, FALSE, NoErrno)
  /\ UNCHANGED << commandVars, wireVars, debug_assertions, subscription_events, rx, chan, received,
                  socketIn, socketOut, peerClosed, pc, call, nframes, nchannels,
                  outstanding, pipelined, evReadSub, replied >>

\* a subscribe that sends its command before it installs the producer, so the
\* producer is missing while the ipc of subscribe reads
subscribe_install_late ==
  /\ nchannels' = nchannels + 1
  /\ chan' = << >>
  /\ received' = 0
  /\ subscription_events' = "None"
  /\ rx' = IF peerClosed THEN "dropped" ELSE "local"
  /\ ipc_begin("subscribe", "Subscribe")
  /\ UNCHANGED << commandVars, wireVars, debug_assertions, socketIn, peerClosed, nframes, evReadSub,
                  replied >>

\* the rest of Client::subscribe up to the first read of its ipc:
\* chan::unbounded(), self.subscription_events = Some(tx), self.ipc(..)
subscribe_install ==
  /\ nchannels' = nchannels + 1
  /\ chan' = << >>
  /\ received' = 0
  /\ subscription_events' = "Some"
  /\ rx' = IF peerClosed THEN "dropped" ELSE "local"
  /\ ipc_begin("subscribe", "Subscribe")
  /\ UNCHANGED << commandVars, wireVars, debug_assertions, socketIn, peerClosed, nframes, evReadSub,
                  replied >>

\* Client::subscribe
subscribe ==
  /\ pc = "idle"
  /\ ncalls < MaxCalls
  /\ ncalls' = ncalls + 1
  /\ IF already_subscribed THEN subscribe_refused ELSE subscribe_install

\* ------------------------------------------- the holder of the Receiver
\* rx.try_recv() takes the oldest waiting item
try_recv ==
  /\ rx = "caller"
  /\ received < Len(chan)
  /\ received' = received + 1
  /\ UNCHANGED << commandVars, wireVars, debug_assertions, subscription_events, rx, chan, socketIn,
                  socketOut, peerClosed, pc, call, last, ncalls, nframes,
                  nchannels, outstanding, pipelined, evReadSub, replied >>

\* the Receiver goes out of scope
drop_rx ==
  /\ rx = "caller"
  /\ rx' = "dropped"
  /\ UNCHANGED << commandVars, wireVars, debug_assertions, subscription_events, chan, received, socketIn,
                  socketOut, peerClosed, pc, call, last, ncalls, nframes,
                  nchannels, outstanding, pipelined, evReadSub, replied >>

\* ------------------------------------------------------------ the service
\* type codes of the event frames the peer writes: a code of IpcEvent and a
\* code with bit 31 set that IpcEvent does not have
EventTypes == { IpcEvent.Window, U32(1, 1) }

\* type codes of the frames of a desynchronised stream (wrong magic)
DesyncTypes == { U32(0, IpcCommandCode.GetTree) }

ServiceWrite(magic, type) ==
  /\ nframes < MaxFrames
  /\ ~peerClosed
  /\ nframes' = nframes + 1
  /\ socketIn' = Append(socketIn, [magic |-> magic, type |-> type,
                                   payload |-> nframes + 1])

\* the service answers the oldest command it has: a frame of the command's code
service_reply ==
  /\ socketOut # << >>
  /\ ServiceWrite(TRUE, Head(socketOut).type)
  /\ socketOut' = Tail(socketOut)
  /\ UNCHANGED << commandVars, wireVars, debug_assertions, subscription_events, rx, chan, received,
                  peerClosed, pc, call, last, ncalls, nchannels, outstanding,
                  pipelined, evReadSub, replied >>

\* the service writes an event frame
service_event(type) ==
  /\ ServiceWrite(TRUE, type)
  /\ UNCHANGED << commandVars, wireVars, debug_assertions, subscription_events, rx, chan, received,
                  socketOut, peerClosed, pc, call, last, ncalls, nchannels,
                  outstanding, pipelined, evReadSub, replied >>

\* bytes that do not start with "i3-ipc" arrive where a frame is expected
service_desync(type) ==
  /\ ServiceWrite(FALSE, type)
  /\ UNCHANGED << commandVars, wireVars, debug_assertions, subscription_events, rx, chan, received,
                  socketOut, peerClosed, pc, call, last, ncalls, nchannels,
                  outstanding, pipelined, evReadSub, replied >>

\* the service closes the connection
service_close ==
  /\ ~peerClosed
  /\ peerClosed' = TRUE
  /\ UNCHANGED << commandVars, wireVars, debug_assertions, subscription_events, rx, chan, received,
                  socketIn, socketOut, pc, call, last, ncalls, nframes,
                  nchannels, outstanding, pipelined, evReadSub, replied >>

\* the commands the caller passes to ipc
CallCommands == { "GetTree", "Subscribe" }

Next ==
  \/ \E command \in CallCommands : ipc(command)
  \/ ipc_loop
  \/ poll
  \/ subscribe
  \/ try_recv
  \/ drop_rx
  \/ service_reply
  \/ \E type \in EventTypes : service_event(type)
  \/ \E type \in DesyncTypes : service_desync(type)
  \/ service_close

Spec == Init /\ [][Next]_vars

\* The loop of Client::ipc runs in the thread that called ipc, and that thread
\* is blocked only in the read: once a frame is on the stream the read returns
\* and the iteration is carried out.
ipc_loop_ready == socketIn # << >> /\ ipc_loop

\* Spec with the loop of ipc going on whenever a frame is there to read
SpecLive == Init /\ [][Next]_vars /\ WF_vars(ipc_loop_ready)

\* ------------------------------------------------------------ the bytes
\* The byte form of a frame: what IpcCommand::write puts into its writer and
\* what Client::read_response takes from the socket. A byte is a number in
\* 0..255, a byte string a sequence of bytes.

\* the bytes a payload is made of here: "0" and "}"
PayloadBytes == { 48, 125 }

\* the byte strings of at most MaxPayload bytes
Payloads == UNION { [1..n -> PayloadBytes] : n \in 0..MaxPayload }

\* the event lists of at most MaxEvents events
EventLists == UNION { [1..n -> DOMAIN IpcEvent] : n \in 0..MaxEvents }

Reverse(s) == [i \in 1..Len(s) |-> s[Len(s) + 1 - i]]

\* u32::to_le_bytes
to_le_bytes(u) ==
  << u.lo % 256, (u.lo \div 256) % 256, (u.lo \div 65536) % 256,
     (u.lo \div 16777216) + 128 * u.hi >>

\* u32::to_ne_bytes: the byte order of the build target
to_ne_bytes(u) ==
  IF endian = "little" THEN to_le_bytes(u) ELSE Reverse(to_le_bytes(u))

\* u32::from_le_bytes
from_le_bytes(b) ==
  U32(b[4] \div 128, b[1] + 256 * b[2] + 65536 * b[3] + 16777216 * (b[4] % 128))

\* a decoder that takes the bytes in the order opposite to the target's
from_ne_bytes_swapped(b) ==
  IF endian = "little" THEN from_le_bytes(Reverse(b)) ELSE from_le_bytes(b)

\* ReadBytesExt::read_u32::<NativeEndian> on the four bytes read
from_ne_bytes(b) ==
  IF endian = "little" THEN from_le_bytes(b) ELSE from_le_bytes(Reverse(b))

\* `len as u32` of a byte string; every length here is far below 2^31
as_u32(n) == U32(0, n)

\* #[serde(rename_all = "snake_case")] on IpcEvent: the name of each variant
snake_case ==
  [ Workspace |-> << 119, 111, 114, 107, 115, 112, 97, 99, 101 >>,
    Mode |-> << 109, 111, 100, 101 >>,
    Window |-> << 119, 105, 110, 100, 111, 119 >>,
    BarconfigUpdate |-> << 98, 97, 114, 99, 111, 110, 102, 105, 103, 95, 117, 112, 100, 97, 116, 101 >>,
    Binding |-> << 98, 105, 110, 100, 105, 110, 103 >>,
    Shutdown |-> << 115, 104, 117, 116, 100, 111, 119, 110 >>,
    Tick |-> << 116, 105, 99, 107 >>,
    BarStatusUpdate |-> << 98, 97, 114, 95, 115, 116, 97, 116, 117, 115, 95, 117, 112, 100, 97, 116, 101 >> ]

\* a serialiser that writes the elements last to first
RECURSIVE json_elements_rev(_)
json_elements_rev(events) ==
  IF events = << >>
  THEN << >>
  ELSE (IF Tail(events) = << >> THEN << >> ELSE json_elements_rev(Tail(events)) \o << 44 >>)
       \o << 34 >> \o snake_case[Head(events)] \o << 34 >>

\* the elements of the JSON array, each a quoted name, separated by commas
RECURSIVE json_elements(_)
json_elements(events) ==
  IF events = << >>
  THEN << >>
  ELSE << 34 >> \o snake_case[Head(events)] \o << 34 >>
       \o (IF Tail(events) = << >> THEN << >> ELSE << 44 >> \o json_elements(Tail(events)))

\* serde_json::to_writer(&mut payload, &events)
to_writer(events) == << 91 >> \o json_elements(events) \o << 93 >>

\* the commands given to write
Commands ==
  { Command("Run", text, << >>, << >>) : text \in Payloads }
    \cup { Command("SendTick", << >>, bytes, << >>) : bytes \in Payloads }
    \cup { Command("Subscribe", << >>, << >>, events) : events \in EventLists }
    \cup { Command(kind, << >>, << >>, << >>) :
             kind \in IpcCommand \ { "Run", "SendTick", "Subscribe" } }

\* a write that treats every command as one without a payload
write_bytes_bare(command) ==
  Magic \o to_ne_bytes(U32(0, 0)) \o to_ne_bytes(code(command.kind))

\* a write whose length field is eight bytes wide
write_bytes_wide(command) ==
  Magic \o
  CASE command.kind = "Run" ->
         to_ne_bytes(as_u32(Len(command.text))) \o to_ne_bytes(U32(0, 0))
           \o to_ne_bytes(code(command.kind)) \o command.text
    [] command.kind = "SendTick" ->
         to_ne_bytes(as_u32(Len(command.bytes))) \o to_ne_bytes(U32(0, 0))
           \o to_ne_bytes(code(command.kind)) \o command.bytes
    [] command.kind = "Subscribe" ->
         to_ne_bytes(as_u32(Len(to_writer(command.events)))) \o to_ne_bytes(U32(0, 0))
           \o to_ne_bytes(code(command.kind)) \o to_writer(command.events)
    [] OTHER ->
         to_ne_bytes(U32(0, 0)) \o to_ne_bytes(U32(0, 0))
           \o to_ne_bytes(code(command.kind))

\* IpcCommand::write: every byte it gives to its writer, in order
write_bytes(command) ==
  Magic \o
  CASE command.kind = "Run" ->
         to_ne_bytes(as_u32(Len(command.text)))
           \o to_ne_bytes(code(command.kind)) \o command.text
    [] command.kind = "SendTick" ->
         to_ne_bytes(as_u32(Len(command.bytes)))
           \o to_ne_bytes(code(command.kind)) \o command.bytes
    [] command.kind = "Subscribe" ->
         to_ne_bytes(as_u32(Len(to_writer(command.events))))
           \o to_ne_bytes(code(command.kind)) \o to_writer(command.events)
    [] OTHER ->
         to_ne_bytes(U32(0, 0)) \o to_ne_bytes(code(command.kind))

\* a read_exact that returns Ok when the stream runs dry, the bytes that did not
\* arrive left as the zeros the buffer was created with
read_exact_short(s, n) ==
  IF Len(s) >= n
  THEN [ok |-> TRUE, bytes |-> SubSeq(s, 1, n), rest |-> SubSeq(s, n + 1, Len(s)),
        errno |-> NoErrno]
  ELSE [ok |-> TRUE, bytes |-> s \o [i \in 1..(n - Len(s)) |-> 0], rest |-> << >>,
        errno |-> NoErrno]

\* Read::read_exact of n bytes from the byte string s the socket holds. With
\* fewer than n bytes there, the bytes that are there are taken and the read
\* then fails as the stream ends: the 1 s read timeout (os error 11) on an open
\* stream, UnexpectedEof (no os error) at end of file, os error 104
\* (ECONNRESET) on a reset connection.
read_exact(s, n) ==
  IF Len(s) >= n
  THEN [ok |-> TRUE, bytes |-> SubSeq(s, 1, n), rest |-> SubSeq(s, n + 1, Len(s)),
        errno |-> NoErrno]
  ELSE [ok |-> FALSE, bytes |-> << >>, rest |-> << >>,
        errno |-> CASE streamEnd = "open" -> {EAGAIN}
                    [] streamEnd = "reset" -> {104}
                    [] OTHER -> NoErrno]

\* an Err(Error::Io) of read_response, the stream left at `rest`
ReadErr(e) == [res |-> "Err", errno |-> e.errno, frame |-> NoBytesFrame,
               rest |-> e.rest]

\* Client::read_response on the bytes of the socket: the magic, the length,
\* the type and the payload are read in turn, each failure returned at once
read_response_bytes(s) ==
  LET magic == read_exact(s, 6)
      len4 == read_exact(magic.rest, 4)
      type4 == read_exact(len4.rest, 4)
      payload_length == from_ne_bytes(len4.bytes)
      payload_type == from_ne_bytes(type4.bytes)
      body == IF payload_length.hi = 0
              THEN read_exact(type4.rest, payload_length.lo)
              ELSE read_exact(type4.rest, Len(type4.rest) + 1)
  IN  CASE ~magic.ok -> ReadErr(magic)
        [] magic.ok /\ debug_assertions /\ magic.bytes # Magic ->
             [res |-> "panic", errno |-> NoErrno, frame |-> NoBytesFrame,
              rest |-> magic.rest]
        [] OTHER ->
             CASE ~len4.ok -> ReadErr(len4)
               [] len4.ok /\ ~type4.ok -> ReadErr(type4)
               [] len4.ok /\ type4.ok /\ ~body.ok -> ReadErr(body)
               [] OTHER ->
                    [res |-> "Ok", errno |-> NoErrno,
                     frame |-> [magic |-> magic.bytes = Magic,
                                length |-> payload_length,
                                type |-> payload_type,
                                payload |-> body.bytes],
                     rest |-> body.rest]

\* a build target of either byte order, either profile, nothing written or read
InitBytes ==
  /\ debug_assertions \in BOOLEAN
  /\ endian \in { "little", "big" }
  /\ ClientInit
  /\ WireInit
  /\ CommandInit

\* the byte strings that may follow a frame on the stream
Tails == { << >>, << 105 >> }

StreamEnds == { "open", "eof", "reset" }

\* the first six bytes a peer may send: the magic, and two strings that differ
\* from it in the last and in the first byte
PeerMagics == { Magic, << 105, 51, 45, 105, 112, 100 >>,
                << 73, 51, 45, 105, 112, 99 >> }

\* the type codes a peer may send: every command op-code, every IpcEvent code
\* and one code with bit 31 set that IpcEvent does not have
PeerTypes ==
  { code(c) : c \in IpcCommand } \cup { IpcEvent[n] : n \in DOMAIN IpcEvent }
    \cup { U32(1, 1) }

\* the frame a peer on the same machine builds
PeerFrame(magic, type, payload) ==
  magic \o to_ne_bytes(as_u32(Len(payload))) \o to_ne_bytes(type) \o payload

\* command.write(&mut buffer) on an empty buffer, for any command
command_write ==
  /\ phase = "start"
  /\ \E command \in Commands :
       /\ encoded' = command
       /\ buffer' = write_bytes(command)
  /\ phase' = "written"
  /\ UNCHANGED << commandVars, clientVars, debug_assertions, endian, stream, streamEnd, origin,
                  response >>

\* the bytes written become the bytes to read, followed by some bytes of the
\* next frame
loop_back ==
  /\ phase = "written"
  /\ \E tail \in Tails :
       /\ stream' = buffer \o tail
       /\ origin' = [NoOrigin EXCEPT !.kind = "loop", !.tail = tail]
  /\ streamEnd' = "open"
  /\ phase' = "arrived"
  /\ UNCHANGED << commandVars, clientVars, debug_assertions, endian, encoded, buffer, response >>

\* the peer sends the first `cut` bytes of a frame, and then the stream stays
\* open, is closed, or is reset
peer_send ==
  /\ phase = "start"
  /\ \E magic \in PeerMagics, type \in PeerTypes, payload \in Payloads,
        end \in StreamEnds :
       \E cut \in 0..Len(PeerFrame(magic, type, payload)) :
         /\ stream' = SubSeq(PeerFrame(magic, type, payload), 1, cut)
         /\ streamEnd' = end
         /\ origin' = [kind |-> "peer", magic |-> magic, type |-> type,
                       payload |-> payload, cut |-> cut, tail |-> << >>]
  /\ phase' = "arrived"
  /\ UNCHANGED << commandVars, clientVars, debug_assertions, endian, encoded, buffer, response >>

\* one read_response made by ipc or by poll, and what the caller makes of it
frame_read ==
  /\ phase = "arrived"
  /\ \E caller \in { "ipc", "poll" } :
       LET r == read_response_bytes(stream)
       IN  /\ response' =
                 [res |-> r.res, errno |-> r.errno, frame |-> r.frame,
                  caller |-> caller,
                  out |-> IF caller = "poll" THEN poll_outcome(r) ELSE ipc_outcome(r),
                  event |-> r.res = "Ok" /\ is_event(r.frame.type)]
           /\ stream' = r.rest
  /\ phase' = "read"
  /\ UNCHANGED << commandVars, clientVars, debug_assertions, endian, encoded, buffer, streamEnd,
                  origin >>

NextBytes ==
  \/ command_write
  \/ loop_back
  \/ peer_send
  \/ frame_read

SpecBytes == InitBytes /\ [][NextBytes]_vars

\* ------------------------------------------------------------ the commands
\* Command, criteria::Criteria and their Display implementations. A String is
\* a TLA+ string, a Vec a sequence.

\* OrFocused::Focused and OrFocused::Value(t)
Focused == [focused |-> TRUE, value |-> "none"]

Value(t) == [focused |-> FALSE, value |-> t]

\* the variants of enum Criteria with their field
Criteria(kind, arg) == [kind |-> kind, arg |-> arg]

Digit == << "0", "1", "2", "3", "4", "5", "6", "7", "8", "9" >>

\* Display of u64: the decimal digits
RECURSIVE u64_to_string(_)
u64_to_string(n) ==
  IF n < 10
  THEN Digit[n + 1]
  ELSE u64_to_string(n \div 10) \o Digit[(n % 10) + 1]

\* a Display of OrFocused that names the sentinel without its underscores
or_focused_string_plain(o) == IF o.focused THEN "focused" ELSE o.value

\* Display of OrFocused<String>
or_focused_string(o) == IF o.focused THEN "__focused__" ELSE o.value

\* Display of OrFocused<u64>
or_focused_u64(o) == IF o.focused THEN "__focused__" ELSE u64_to_string(o.value)

\* Display of Criteria: the #[display(fmt = ...)] of each variant
criteria_to_string(c) ==
  CASE c.kind = "AppId" -> "app_id=\"" \o or_focused_string(c.arg) \o "\""
    [] c.kind = "Class" -> "class=\"" \o or_focused_string(c.arg) \o "\""
    [] c.kind = "ConId" -> "con_id=\"" \o or_focused_u64(c.arg) \o "\""
    [] c.kind = "ConMark" -> "con_mark=\"" \o c.arg \o "\""
    [] c.kind = "Floating" -> "floating"
    [] c.kind = "Id" -> "id=\"" \o u64_to_string(c.arg) \o "\""
    [] c.kind = "Instance" -> "instance=\"" \o or_focused_string(c.arg) \o "\""
    [] c.kind = "Shell" -> "shell=\"" \o or_focused_string(c.arg) \o "\""
    [] c.kind = "Tiling" -> "tiling"
    [] c.kind = "Title" -> "title=\"" \o or_focused_string(c.arg) \o "\""
    [] c.kind = "Urgent" -> "urgent=\"" \o c.arg \o "\""
    [] c.kind = "WindowRole" -> "window_role=\"" \o or_focused_string(c.arg) \o "\""
    [] c.kind = "WindowType" -> "window_type=\"" \o c.arg \o "\""
    [] c.kind = "Workspace" -> "workspace=\"" \o or_focused_string(c.arg) \o "\""

\* a join that puts the elements last to first
RECURSIVE join_rev(_, _)
join_rev(strings, sep) ==
  IF Len(strings) = 0
  THEN ""
  ELSE IF Len(strings) = 1
       THEN Head(strings)
       ELSE join_rev(Tail(strings), sep) \o sep \o Head(strings)

\* itertools::join: the elements with sep between each two
RECURSIVE join(_, _)
join(strings, sep) ==
  IF Len(strings) = 0
  THEN ""
  ELSE IF Len(strings) = 1
       THEN Head(strings)
       ELSE Head(strings) \o sep \o join(Tail(strings), sep)

\* the variants of enum Command; WithCriteria holds the two fields of
\* struct CriteriaCommand
Raw(text) == [kind |-> "Raw", text |-> text]

Exec(text) == [kind |-> "Exec", text |-> text]

WithCriteria(criteria, command) ==
  [kind |-> "WithCriteria", criteria |-> criteria, command |-> command]

\* an Exec that renders as its text alone
fmt_exec_bare(text) == text

\* #[display(fmt = "exec {}", "_0")] of Command::Exec
fmt_exec(text) == "exec " \o text

\* Display of Command, and of CriteriaCommand for the WithCriteria variant
RECURSIVE to_string(_)
to_string(command) ==
  CASE command.kind = "WithCriteria" ->
         "["
           \o join([i \in 1..Len(command.criteria) |->
                      criteria_to_string(command.criteria[i])], " ")
           \o "] " \o to_string(command.command)
    [] command.kind = "Exec" -> fmt_exec(command.text)
    [] command.kind = "Raw" -> command.text

\* a with_criteria that wraps every command, a WithCriteria too
with_criteria_nest(self, criteria) == WithCriteria(criteria, self)

\* a with_criteria that puts the new criteria before the existing ones
with_criteria_prepend(self, criteria) ==
  IF self.kind = "WithCriteria"
  THEN WithCriteria(criteria \o self.criteria, self.command)
  ELSE WithCriteria(criteria, self)

\* Command::with_criteria
with_criteria(self, criteria) ==
  IF self.kind = "WithCriteria"
  THEN WithCriteria(self.criteria \o criteria, self.command)
  ELSE WithCriteria(criteria, self)

\* the texts given to command::raw and command::exec
Texts == { "st", "123123" }

\* the criteria of the crate's test: con_mark("123"), con_id(123),
\* workspace(focused())
TestCriteria ==
  << Criteria("ConMark", "123"), Criteria("ConId", Value(123)),
     Criteria("Workspace", Focused) >>

\* the lists given to with_criteria: the empty one, and every list of one or
\* two of the test's criteria, and the test's list of three
CriteriaLists ==
  { << >>, TestCriteria }
    \cup { << TestCriteria[i] >> : i \in 1..3 }
    \cup { << TestCriteria[i], TestCriteria[j] >> : i, j \in 1..3 }

\* one or more Criteria of every kind, as the functions of mod criteria make
\* them: the Focused sentinel and a value where the kind takes OrFocused
AllCriteria ==
  { Criteria(k, a) : k \in { "AppId", "Class", "Instance", "Shell", "Title",
                             "WindowRole", "Workspace" },
                     a \in { Focused, Value("st") } }
    \cup { Criteria("ConId", a) : a \in { Focused, Value(123), Value(7), Value(0) } }
    \cup { Criteria("Id", n) : n \in { 0, 7, 123 } }
    \cup { Criteria(k, "123") : k \in { "ConMark", "Urgent", "WindowType" } }
    \cup { Criteria(k, "none") : k \in { "Floating", "Tiling" } }

\* nothing built yet; the build profile and the byte order play no part in
\* these steps, so one of each is taken
InitCommand ==
  /\ debug_assertions = FALSE
  /\ endian = "little"
  /\ ClientInit
  /\ WireInit
  /\ CommandInit

\* the last Command made
Current == cmds[Len(cmds)]

\* command::raw(text) or command::exec(text)
command_new ==
  /\ made = "start"
  /\ \E text \in Texts : cmds' \in { << Raw(text) >>, << Exec(text) >> }
  /\ made' = "built"
  /\ UNCHANGED << debug_assertions, clientVars, wireVars, supplied, criterion, shown >>

\* command.with_criteria(criteria) on the last Command made
command_with_criteria ==
  /\ made = "built"
  /\ Len(supplied) < MaxWith
  /\ \E criteria \in CriteriaLists :
       /\ cmds' = Append(cmds, with_criteria(Current, criteria))
       /\ supplied' = Append(supplied, criteria)
  /\ UNCHANGED << debug_assertions, clientVars, wireVars, criterion, shown, made >>

\* command.to_string() on the last Command made
command_to_string ==
  /\ made = "built"
  /\ shown' = to_string(Current)
  /\ made' = "shown"
  /\ UNCHANGED << debug_assertions, clientVars, wireVars, cmds, supplied, criterion >>

\* criteria.to_string() on one Criteria
criteria_display ==
  /\ made = "start"
  /\ \E c \in AllCriteria :
       /\ criterion' = c
       /\ shown' = criteria_to_string(c)
  /\ made' = "shown"
  /\ UNCHANGED << debug_assertions, clientVars, wireVars, cmds, supplied >>

NextCommand ==
  \/ command_new
  \/ command_with_criteria
  \/ command_to_string
  \/ criteria_display

SpecCommand == InitCommand /\ [][NextCommand]_vars

\* ---------------------------------------------------------------- claims
\* An "event frame" is a frame whose type_code is one of the codes of enum
\* IpcEvent (IsTableEvent); a frame that merely has bit 31 set is named so.

\* the last step of the client belongs to the call recorded in `call`
InCall == last.op \in {"ipc", "subscribe"} /\ last.out # "AlreadySubscribed"

\* C1: the payload an ipc call returns comes from a frame whose type_code is
\* the op-code of the command this call wrote.  (Stated for frames that start
\* with the magic; the code returns mismatching frames even then.)
C1_ReplyCodeIsRequestCode ==
  (InCall /\ last.out = "Ok" /\ last.frame.magic) => last.frame.type = call.code

\* C2: during an ipc call with a producer installed and its Receiver alive,
\* the queue grows by exactly the event frames the call has read, in the
\* order read, and no frame returned as a reply is ever on the queue.
C2_EventsQueuedInReadOrder ==
  /\ (InCall /\ call.subAtCall = "Some" /\ RxAlive)
        => chan = call.chanAtStart \o call.evRead
  /\ \A i \in 1..Len(chan) : chan[i].payload \notin replied

\* C2 happens: a call returned its reply after reading two event frames
C2_Witness ==
  /\ InCall /\ last.out = "Ok" /\ call.subAtCall = "Some" /\ RxAlive
  /\ Len(call.evRead) >= 2
  /\ replied # {}

\* C3: with a producer installed and the Receiver alive, the items pushed
\* are the event frames read so far under that producer, by ipc and poll
\* alike, in the order the service wrote them, each once.
C3_PushedIsEventsRead ==
  (subscription_events = "Some" /\ RxAlive) => chan = evReadSub

\* C3 happens: one event was queued by the ipc of subscribe, the next by poll
C3_Witness ==
  /\ subscription_events = "Some" /\ rx = "caller"
  /\ Len(call.evRead) >= 1 /\ Len(chan) > Len(call.evRead)
  /\ last.op = "poll" /\ last.out = "Ok" /\ last.read
  /\ chan[1].payload < chan[2].payload

\* the last step of the client decoded a frame with bit 31 set while no
\* producer was installed
ReadHighBitUnsubscribed ==
  last.read /\ last.frame.type.hi = 1 /\ last.sub = "None"

\* C4 as claimed: a frame with bit 31 set that ipc or poll reads while no
\* producer is installed ends the call in a fatal failure; the call neither
\* continues nor returns Ok.
C4_HighBitUnsubscribedIsFatal ==
  ReadHighBitUnsubscribed => last.out \notin {"continue", "Ok"}

\* C4 as amended: such a frame is discarded without any failure: nothing is
\* queued, ipc goes on to read the next frame and poll returns Ok.
C4_HighBitUnsubscribedIsDiscarded ==
  ReadHighBitUnsubscribed =>
    /\ chan = << >>
    /\ last.op = "ipc" => (last.out = "continue" /\ pc = "ipc")
    /\ last.op = "poll" => (last.out = "Ok" /\ pc = "idle")
    /\ last.op \in {"ipc", "poll"}

\* C4 happens: poll read a frame with bit 31 set on a connection with no producer
C4_Witness ==
  ReadHighBitUnsubscribed /\ last.op = "poll" /\ last.out = "Ok"

\* C5: an event frame read by ipc or poll while the producer is installed and
\* the Receiver is dropped ends the call with SubscriptionError.
C5_DroppedReceiverIsSubscriptionError ==
  (last.read /\ IsTableEvent(last.frame) /\ last.sub = "Some" /\ last.rxs = "dropped")
     => (last.out = "SubscriptionError" /\ pc = "idle")

\* C5 happens: ipc read an event frame after the Receiver was dropped
C5_Witness ==
  /\ last.read /\ IsTableEvent(last.frame) /\ last.sub = "Some" /\ last.rxs = "dropped"
  /\ last.op = "ipc" /\ last.out = "SubscriptionError"

\* C6: subscribe returns AlreadySubscribed exactly when a producer is already
\* installed; at most one producer/consumer pair is ever created; a
\* connection on which nothing was called has none.
C6_AtMostOneSubscription ==
  /\ last.out = "AlreadySubscribed"
        <=> (last.op = "subscribe" /\ last.first /\ last.sub = "Some")
  /\ nchannels <= 1
  /\ subscription_events = "Some" <=> nchannels = 1
  /\ ncalls = 0 => (subscription_events = "None" /\ nchannels = 0)

\* C6 happens: a second subscribe was refused on a subscribed connection
C6_Witness ==
  last.out = "AlreadySubscribed" /\ nchannels = 1 /\ rx = "caller"

\* C7: a subscribe that returns AlreadySubscribed writes no frame, reads no
\* frame, and leaves the producer and the first subscription's queue as they were.
C7_RefusedSubscribeTouchesNothing ==
  [][(last'.out = "AlreadySubscribed" /\ ncalls' # ncalls)
       => UNCHANGED << socketIn, socketOut, subscription_events, chan, received,
                       rx, nchannels >>]_vars

\* C7 happens: subscribe was refused while an event waited on the first queue
C7_Witness ==
  last.out = "AlreadySubscribed" /\ rx = "caller" /\ Queue # << >>

\* C8: the producer is installed while the ipc of subscribe runs, and when
\* subscribe returns Ok every event frame read since its request was written
\* waits on the queue of the Receiver it returns.
C8_SubscribeKeepsEarlyEvents ==
  [][/\ (call'.op = "subscribe" /\ pc' = "ipc") => subscription_events' = "Some"
     /\ (pc = "ipc" /\ call.op = "subscribe" /\ last'.out = "Ok")
          => (rx' = "caller" /\ Queue' = call'.evRead /\ call'.chanAtStart = << >>)]_vars

\* C8 happens: subscribe returned Ok after reading an event frame before its reply
C8_Witness ==
  /\ last.op = "subscribe" /\ last.out = "Ok" /\ Len(call.evRead) >= 1
  /\ rx = "caller" /\ Queue = call.evRead

\* C9: no command frame is written while the reply to an earlier command
\* frame is still unread.
C9_NoPipelining == ~pipelined

\* C10: a poll whose read fails for lack of data returns Ok, pushes nothing,
\* writes nothing and leaves the subscription as it was.
C10_PollTimeoutIsNoOp ==
  [][(last'.op = "poll" /\ ncalls' # ncalls /\ last'.errno = {EAGAIN})
       => /\ last'.out = "Ok"
          /\ pc' = "idle"
          /\ UNCHANGED << chan, received, socketOut, subscription_events, rx,
                          nchannels >>]_vars

\* C10 happens: poll timed out on a subscribed connection and returned Ok
C10_Witness ==
  /\ last.op = "poll" /\ last.errno = {EAGAIN} /\ last.out = "Ok"
  /\ subscription_events = "Some" /\ rx = "caller"

\* the step being taken is a call of poll
PollStep == pc = "idle" /\ ncalls' # ncalls /\ last'.op = "poll"

\* C11: the no-data timeout is absorbed by poll only: when the read inside
\* ipc, or inside the ipc of subscribe, times out, the call returns an Io error.
C11_IpcTimeoutIsIoError ==
  [][(pc = "ipc" /\ socketIn = << >> /\ ~peerClosed /\ last' # last)
       => /\ last'.errno = {EAGAIN}
          /\ last'.out = "Io"
          /\ pc' = "idle"]_vars

\* C11 happens: the ipc of subscribe timed out and subscribe returned Io
C11_Witness ==
  /\ last.op = "subscribe" /\ ~last.first /\ last.errno = {EAGAIN}
  /\ last.out = "Io" /\ pc = "idle"

\* C12: a poll makes one frame read: when it returns Ok after reading a
\* frame it took exactly that one frame off the stream, pushed at most one
\* item (the frame read) and wrote nothing.
C12_PollReadsOneFrame ==
  [][(PollStep /\ last'.read /\ last'.out = "Ok")
       => /\ socketIn # << >>
          /\ socketIn' = Tail(socketIn)
          /\ last'.frame = Head(socketIn)
          /\ chan' \in {chan, Append(chan, Item(Head(socketIn)))}
          /\ socketOut' = socketOut]_vars

\* C12 happens: poll returned Ok for one frame while another one stays unread
C12_Witness ==
  /\ last.op = "poll" /\ last.read /\ last.out = "Ok"
  /\ socketIn # << >> /\ Len(chan) = 1

\* C13: a frame with bit 31 clear read by poll is not swallowed: poll does
\* not return Ok (it panics in unreachable!()) and nothing is pushed.
C13_PollReplyFrameNotSwallowed ==
  [][(PollStep /\ last'.read /\ last'.frame.type.hi = 0)
       => /\ last'.out = "panic"
          /\ pc' = "panicked"
          /\ chan' = chan]_vars

\* C13 happens: poll read the reply that a timed-out ipc had left on the stream
C13_Witness ==
  /\ last.op = "poll" /\ last.read /\ last.frame.type.hi = 0 /\ last.frame.magic
  /\ last.out = "panic" /\ subscription_events = "Some"

\* the bytes of `stream` were the first origin.cut bytes of a frame a peer sent
FromPeer == phase = "read" /\ origin.kind = "peer"

\* the whole frame the peer had to send
WholeFrame == PeerFrame(origin.magic, origin.type, origin.payload)

\* C14: a read failure in poll other than the no-data timeout is returned as
\* an Io error: poll does not return Ok and makes no second read.
C14_PollReadFailureIsIoError ==
  (phase = "read" /\ response.caller = "poll" /\ response.res = "Err"
     /\ response.errno # {EAGAIN})
    => response.out = "Io"

\* C14 happens: the connection was reset inside the payload poll was reading
C14_Witness ==
  /\ FromPeer /\ response.caller = "poll" /\ origin.cut >= 14
  /\ response.res = "Err" /\ response.errno = {104} /\ response.out = "Io"

\* C15: six first bytes other than "i3-ipc" make the frame read fail, so that
\* no (type_code, payload) pair is produced from them.
C15_BadMagicYieldsNoFrame ==
  (FromPeer /\ origin.cut >= 6 /\ origin.magic # Magic)
    => /\ response.res # "Ok"
       /\ response.out \notin { "Ok", "continue" }

\* C16: when the stream ends inside a frame, in its 14 header bytes or in its
\* payload, the frame read fails with an Io error that ipc and poll return,
\* and no payload is produced.  (Stated for streams that start as a frame
\* does, with the magic or a part of it.)
C16_ShortStreamIsIoError ==
  (FromPeer /\ origin.magic = Magic /\ streamEnd = "eof"
     /\ origin.cut < Len(WholeFrame))
    => /\ response.res = "Err"
       /\ response.errno = NoErrno
       /\ response.out = "Io"
       /\ response.frame = NoBytesFrame
       /\ stream = << >>

\* C16 happens: the stream ended inside the payload, after a whole header
C16_Witness ==
  /\ FromPeer /\ origin.magic = Magic /\ streamEnd = "eof"
  /\ origin.cut >= 14 /\ origin.cut < Len(WholeFrame)
  /\ response.caller = "ipc" /\ response.out = "Io"

\* the command kind's own entry in enum IpcCommandCode
OwnCode(kind) ==
  IF kind = "Run" THEN IpcCommandCode.RunCommand ELSE IpcCommandCode[kind]

\* the payload of a command: the text of Run, the bytes of SendTick, the
\* serialised event list of Subscribe, nothing for the other kinds
PayloadOf(command) ==
  CASE command.kind = "Run" -> command.text
    [] command.kind = "SendTick" -> command.bytes
    [] command.kind = "Subscribe" -> to_writer(command.events)
    [] OTHER -> << >>

\* write has been called on `encoded`
Written == phase # "start" /\ encoded # NoCommand

C19_ClassificationMatchesTables ==
  /\ \A n \in DOMAIN IpcEvent : IpcEvent[n].hi = 1
  /\ \A c \in IpcCommand : code(c).hi = 0
  /\ (phase = "read" /\ response.res = "Ok")
       => /\ (\E n \in DOMAIN IpcEvent : response.frame.type = IpcEvent[n])
               => response.event
          /\ (\E c \in IpcCommand : response.frame.type = code(c))
               => ~response.event

\* C19 happens: a frame with the highest IpcEvent code was read and classified
C19_Witness ==
  /\ FromPeer /\ response.res = "Ok" /\ origin.magic = Magic
  /\ response.frame.type = IpcEvent.BarStatusUpdate /\ response.event

\* C20: the op-code written for each command kind is the one listed, and no
\* two kinds share an op-code.
C20_OpCodes ==
  /\ \A a, b \in IpcCommand : code(a) = code(b) => a = b
  /\ Written
       => from_ne_bytes(SubSeq(buffer, 11, 14))
            = U32(0, CASE encoded.kind = "Run" -> 0
                       [] encoded.kind = "GetWorkspaces" -> 1
                       [] encoded.kind = "Subscribe" -> 2
                       [] encoded.kind = "GetOutputs" -> 3
                       [] encoded.kind = "GetTree" -> 4
                       [] encoded.kind = "GetMarks" -> 5
                       [] encoded.kind = "GetBarConfig" -> 6
                       [] encoded.kind = "GetVersion" -> 7
                       [] encoded.kind = "GetBindingModes" -> 8
                       [] encoded.kind = "GetConfig" -> 9
                       [] encoded.kind = "SendTick" -> 10)

\* C20 happens: GetConfig was written and the op-code field holds 9
C20_Witness ==
  /\ phase = "written" /\ encoded.kind = "GetConfig"
  /\ from_ne_bytes(SubSeq(buffer, 11, 14)) = U32(0, 9)

\* the bytes after the 14 header bytes of what write produced
PayloadWritten == SubSeq(buffer, 15, Len(buffer))

\* C21: the payload written depends on the command kind: the UTF-8 bytes of
\* the text for Run, the bytes unchanged for SendTick, a JSON array for
\* Subscribe, and for every other kind a length field of 0 and no payload.
C21_PayloadByKind ==
  Written
    => CASE encoded.kind = "Run" -> PayloadWritten = encoded.text
         [] encoded.kind = "SendTick" -> PayloadWritten = encoded.bytes
         [] encoded.kind = "Subscribe" ->
              /\ Len(PayloadWritten) >= 2
              /\ Head(PayloadWritten) = 91
              /\ PayloadWritten[Len(PayloadWritten)] = 93
         [] OTHER ->
              /\ encoded.kind \in { "GetTree", "GetWorkspaces", "GetOutputs", "GetMarks",
                                    "GetBarConfig", "GetVersion", "GetBindingModes",
                                    "GetConfig" }
              /\ Len(buffer) = 14
              /\ SubSeq(buffer, 7, 10) = << 0, 0, 0, 0 >>

\* C21 happens: GetVersion was written and the buffer holds the header only
C21_Witness ==
  /\ phase = "written"
  /\ encoded.kind = "GetVersion"
  /\ Len(buffer) = 14

\* the JSON array of the names of `events`, built from the left
JsonArrayOf(events) ==
  LET upto[i \in 0..Len(events)] ==
        IF i = 0
        THEN << >>
        ELSE upto[i - 1] \o (IF i > 1 THEN << 44 >> ELSE << >>)
               \o << 34 >> \o snake_case[events[i]] \o << 34 >>
  IN  << 91 >> \o upto[Len(events)] \o << 93 >>

\* C22: the payload of Subscribe(events) is the JSON array of the lowercase
\* snake_case names of the events, one element per entry, in the order given;
\* for [Window, Tick] it is ["window","tick"].
C22_SubscribePayloadIsJsonNames ==
  /\ \A n \in DOMAIN IpcEvent :
       \A i \in 1..Len(snake_case[n]) :
         snake_case[n][i] \in (97..122) \cup { 95 }
  /\ snake_case.Window = << 119, 105, 110, 100, 111, 119 >>
  /\ snake_case.Tick = << 116, 105, 99, 107 >>
  /\ (Written /\ encoded.kind = "Subscribe")
       => /\ PayloadWritten = JsonArrayOf(encoded.events)
          /\ (encoded.events = << "Window", "Tick" >>
                => PayloadWritten
                     = << 91, 34, 119, 105, 110, 100, 111, 119, 34, 44,
                          34, 116, 105, 99, 107, 34, 93 >>)
          /\ (encoded.events = << "Tick", "Tick" >>
                => PayloadWritten
                     = << 91, 34, 116, 105, 99, 107, 34, 44,
                          34, 116, 105, 99, 107, 34, 93 >>)
          /\ (encoded.events = << >> => PayloadWritten = << 91, 93 >>)

\* C22 happens: Subscribe([Window, Tick]) was written
C22_Witness ==
  /\ phase = "written" /\ encoded.kind = "Subscribe"
  /\ encoded.events = << "Window", "Tick" >>
  /\ Len(PayloadWritten) = 17

\* to_string was called on the last Command made
Shown == made = "shown" /\ cmds # << >>

\* the Command that command::raw or command::exec made
Base == cmds[1]

\* the renderings of the criteria of a list, a space between each two, built
\* from the left
Spaced(criteria) ==
  LET upto[i \in 0..Len(criteria)] ==
        IF i = 0
        THEN ""
        ELSE upto[i - 1] \o (IF i > 1 THEN " " ELSE "")
               \o criteria_to_string(criteria[i])
  IN  upto[Len(criteria)]

\* what Raw(text) and Exec(text) are to render as
Plain(command) ==
  IF command.kind = "Exec" THEN "exec " \o command.text ELSE command.text

\* C23: a WithCriteria with a non-empty list renders as "[", the renderings of
\* the criteria in the order supplied with a single space between each two,
\* repeated criteria kept, then "] " and the rendering of the inner command.
C23_CriteriaRenderInOrder ==
  (Shown /\ Current.kind = "WithCriteria" /\ Current.criteria # << >>)
    => /\ shown = "[" \o Spaced(Current.criteria) \o "] " \o Plain(Current.command)
       /\ (Current = WithCriteria(TestCriteria, Raw("123123"))
             => shown
                  = "[con_mark=\"123\" con_id=\"123\" workspace=\"__focused__\"] 123123")
       /\ (Current = WithCriteria(<< TestCriteria[2], TestCriteria[1], TestCriteria[2] >>,
                                  Exec("st"))
             => shown = "[con_id=\"123\" con_mark=\"123\" con_id=\"123\"] exec st")

\* C23 happens: a list with a repeated criterion, out of the order of the
\* kinds, was rendered
C23_Witness ==
  /\ Shown
  /\ Current = WithCriteria(<< TestCriteria[2], TestCriteria[1], TestCriteria[2] >>,
                            Exec("st"))
  /\ shown = "[con_id=\"123\" con_mark=\"123\" con_id=\"123\"] exec st"

\* C24: a WithCriteria whose criteria list is empty renders exactly as its
\* inner command renders, with no bracket prefix.
C24_EmptyCriteriaRenderAsInner ==
  (Shown /\ Current.kind = "WithCriteria" /\ Current.criteria = << >>)
    => shown = Plain(Current.command)

\* the concatenation of the first n lists supplied
RECURSIVE Concat(_)
Concat(n) == IF n = 0 THEN << >> ELSE Concat(n - 1) \o supplied[n]

CriteriaShown == made = "shown" /\ criterion # NoCriteria

\* the key of each kind of criterion
Key ==
  [ AppId |-> "app_id", Class |-> "class", ConId |-> "con_id", ConMark |-> "con_mark",
    Floating |-> "floating", Id |-> "id", Instance |-> "instance", Shell |-> "shell",
    Tiling |-> "tiling", Title |-> "title", Urgent |-> "urgent",
    WindowRole |-> "window_role", WindowType |-> "window_type",
    Workspace |-> "workspace" ]

\* the decimal digits of the numbers that are rendered here
Decimal(n) ==
  CASE n = 0 -> "0"
    [] n = 7 -> "7"
    [] n = 123 -> "123"

\* the text of the concrete value of a criterion: the string itself, the
\* decimal digits of a number
Stringified(kind, v) == IF kind \in { "ConId", "Id" } THEN Decimal(v) ELSE v

\* the value part of a criterion that has one
ValueText(c) ==
  IF c.kind \in { "ConMark", "Urgent", "WindowType", "Id" }
  THEN Stringified(c.kind, c.arg)
  ELSE IF c.arg.focused THEN "__focused__" ELSE Stringified(c.kind, c.arg.value)

\* C27: a criterion renders as key="value" with the key of its kind, value
\* being __focused__ for the Focused sentinel and the stringified value
\* otherwise; Floating and Tiling render as the bare keywords.
C27_CriterionRendering ==
  CriteriaShown
    => shown = (IF criterion.kind \in { "Floating", "Tiling" }
                THEN Key[criterion.kind]
                ELSE Key[criterion.kind] \o "=\"" \o ValueText(criterion) \o "\"")

\* C27 happens: a criterion with the Focused sentinel was rendered
C27_Witness ==
  /\ CriteriaShown
  /\ criterion = Criteria("Title", Focused)
  /\ shown = "title=\"__focused__\""

\* C28: Raw(text) renders to text and Exec(text) to "exec " followed by text,
\* and wrapping either in criteria leaves that rendering as the suffix of the
\* result: exec("st") with [con_id(123)] renders to [con_id="123"] exec st.
C28_RawAndExecRendering ==
  Shown
    => /\ Len(shown) >= Len(Plain(Base))
       /\ SubSeq(shown, Len(shown) - Len(Plain(Base)) + 1, Len(shown)) = Plain(Base)
       /\ supplied = << >> => shown = Plain(Base)
       /\ (Base = Exec("st") /\ supplied = << << TestCriteria[2] >> >>)
            => shown = "[con_id=\"123\"] exec st"

\* C28 happens: exec("st") with [con_id(123)] was rendered
C28_Witness ==
  /\ Shown /\ Base = Exec("st") /\ supplied = << << TestCriteria[2] >> >>
  /\ shown = "[con_id=\"123\"] exec st"

\* the step being taken enters Client::ipc, called directly or by subscribe
IpcEntry ==
  /\ pc = "idle" /\ ncalls' # ncalls
  /\ last'.op \in { "ipc", "subscribe" } /\ last'.out # "AlreadySubscribed"

\* C29: an ipc call writes exactly one frame, with the command's op-code,
\* before it reads any frame, and writes nothing more during the call; when
\* the write fails the call returns an Io error and reads no frame.
C29_IpcWritesOnceBeforeReading ==
  [][/\ IpcEntry
          => /\ ~last'.read
             /\ socketIn' = socketIn
             /\ IF last'.wrote
                THEN /\ Len(socketOut') = Len(socketOut) + 1
                     /\ SubSeq(socketOut', 1, Len(socketOut)) = socketOut
                     /\ socketOut'[Len(socketOut')].magic
                     /\ socketOut'[Len(socketOut')].type
                          = U32(0, OwnCode(call'.command))
                     /\ pc' = "ipc"
                ELSE /\ peerClosed
                     /\ socketOut' = socketOut
                     /\ last'.out = "Io"
                     /\ pc' = "idle"
     /\ (pc = "ipc" /\ last' # last)
          => /\ ~last'.wrote
             /\ socketOut' = socketOut]_vars

\* C29 happens: the write failed while a frame was waiting, and the frame was
\* left unread
C29_Witness ==
  /\ last.op = "ipc" /\ last.first /\ last.out = "Io" /\ ~last.wrote /\ ~last.read
  /\ peerClosed /\ socketIn # << >> /\ pc = "idle"

\* C30: with a producer installed and its Receiver alive, every frame whose
\* type_code has bit 31 set is pushed by ipc and poll, whatever its other
\* bits, and the call does not abort.
C30_HighBitAlwaysForwarded ==
  (last.read /\ last.frame.type.hi = 1 /\ last.frame.magic
     /\ last.sub = "Some" /\ last.rxs \in { "local", "caller" })
    => /\ last.out # "panic"
       /\ chan # << >>
       /\ chan[Len(chan)].payload = last.frame.payload

\* C31: every WithCriteria command built through with_criteria carries a
\* non-empty criteria list.
C31_WithCriteriaListNonEmpty ==
  \A i \in 1..Len(cmds) :
    cmds[i].kind = "WithCriteria" => cmds[i].criteria # << >>

\* C32: a subscribe that fails with an error other than AlreadySubscribed
\* leaves no producer installed, so that a later subscribe is not refused.
C32_FailedSubscribeLeavesNoProducer ==
  (last.op = "subscribe" /\ pc = "idle"
     /\ last.out \in { "Io", "SubscriptionError" })
    => subscription_events = "None"

\* the bytes the read took from the stream the peer fed
Consumed == origin.cut - Len(stream)

\* C33: when ipc or poll returns Ok the read position is at a frame boundary:
\* no byte or every byte of the frame has been taken, also when poll returns
\* Ok for a read that found no data in time.  (Stated for streams that start
\* as a frame does.)
C33_OkLeavesFrameBoundary ==
  (FromPeer /\ origin.magic = Magic /\ response.out = "Ok")
    => Consumed \in { 0, Len(WholeFrame) }

\* C34: the producer only ever goes from absent to installed, in a step of
\* subscribe; ipc, poll and every other step leave it as it is, and a channel
\* is created only while none is installed, so an installed producer is never
\* removed or replaced.
C34_SubscriptionOnlyInstalled ==
  [][/\ subscription_events' # subscription_events
          => /\ subscription_events = "None"
             /\ subscription_events' = "Some"
             /\ last'.op = "subscribe"
     /\ nchannels' # nchannels
          => /\ subscription_events = "None"
             /\ last'.op = "subscribe"]_vars

\* C34 happens: a failed ipc and a poll came after the producer was installed,
\* the Receiver is dropped, and the producer is still the one installed
C34_Witness ==
  /\ subscription_events = "Some" /\ nchannels = 1 /\ rx = "dropped"
  /\ last.op = "poll" /\ last.out = "SubscriptionError" /\ ncalls = 3

\* call n is in the loop of ipc, its reply is the one reply not yet read, the
\* service has written it with payload p, and the frames in front of it on
\* the stream are event frames
ReplyWritten(n, p) ==
  /\ pc = "ipc" /\ ncalls = n /\ outstanding = 1
  /\ \E k \in 1..Len(socketIn) :
       /\ socketIn[k].magic /\ socketIn[k].type = call.code
       /\ socketIn[k].payload = p
       /\ \A i \in 1..(k - 1) : socketIn[i].magic /\ IsTableEvent(socketIn[i])

\* call n has returned Ok with payload p
ReplyReturned(n, p) ==
  /\ pc = "idle" /\ ncalls = n
  /\ last.out = "Ok" /\ last.frame.payload = p

\* call n has failed with SubscriptionError on an event frame whose consumer
\* was gone
ConsumerGone(n) ==
  /\ pc = "idle" /\ ncalls = n
  /\ last.out = "SubscriptionError" /\ IsTableEvent(last.frame)
  /\ last.sub = "Some" /\ last.rxs = "dropped"

\* the step in which ipc returns Ok takes the returned frame off the stream
\* and leaves what follows it there
ReturnReadsNoFurther ==
  [][(pc = "ipc" /\ pc' = "idle" /\ last'.out = "Ok")
       => /\ socketIn # << >>
          /\ last'.frame = Head(socketIn)
          /\ socketIn' = Tail(socketIn)]_vars

\* C35 as stated: once the reply is written behind finitely many event frames
\* and the reads succeed, ipc eventually returns that reply's payload, and it
\* reads no frame that follows the reply.
C35_IpcReturnsReply ==
  /\ \A n \in 1..MaxCalls : \A p \in 1..MaxFrames :
       ReplyWritten(n, p) ~> ReplyReturned(n, p)
  /\ ReturnReadsNoFurther

\* C35: once the reply is written behind finitely many event frames and the
\* reads succeed, ipc eventually returns that reply's payload, or fails with
\* SubscriptionError on one of the event frames when the consumer of the
\* installed subscription has been dropped; it reads no frame that follows
\* the reply.
C35_IpcReturnsReplyOrConsumerGone ==
  /\ \A n \in 1..MaxCalls : \A p \in 1..MaxFrames :
       ReplyWritten(n, p) ~> (ReplyReturned(n, p) \/ ConsumerGone(n))
  /\ ReturnReadsNoFurther

\* C35 happens: an ipc has read event frames, then returned its reply, and a
\* frame written after the reply is still on the stream
C35_Witness ==
  /\ pc = "idle" /\ last.op = "ipc" /\ last.out = "Ok"
  /\ outstanding = 0 /\ last.frame.type = call.code
  /\ call.evRead # << >>
  /\ socketIn # << >>

====
